---------------------------- MODULE Spec2Model ----------------------------
(***************************************************************************)
(* ENBUILD MCP server: the four main programs of the repository            *)
(*   "mcpenbuild"  src/mcpenbuild.go      (token, five hyphenated tools)   *)
(*   "part_000"    src/unnamed/part_000   (token, JSON envelope)           *)
(*   "part_002"    src/unnamed/part_002   (token, validation, table)       *)
(*   "part_001"    src/unnamed/part_001   (username/password, SDK direct)  *)
(* and the two client wrappers src/pkg/enbuild/client.go and               *)
(* src/unnamed/part_005.  A run is: main() parses the flags and either     *)
(* exits or serves; while serving, tools are called one after another.     *)
(* Every handler is one action; what it did (clients built, SDK calls      *)
(* issued, the response value, the tool result and the Go error) is        *)
(* recorded in the variable last until the response is written.            *)
(***************************************************************************)
EXTENDS Integers, Sequences, FiniteSets, TLC

VARIABLES variant,    \* which main program is running
          environ,    \* the process environment (os.Getenv / os.Setenv)
          boot,       \* the flags and the environment main() started with
          phase,      \* "boot" | "serving" | "exited"
          listeners,  \* the transports started by run()
          exitCode,   \* the exit status, -1 while the process runs
          fatal,      \* the message of log.Fatalf, "" when none was logged
          last,       \* the record of the latest tool call
          prev        \* the record of an invocation kept while another runs

vars == <<variant, environ, boot, phase, listeners, exitCode, fatal, last, prev>>

(***************************************************************************)
(* Bounds                                                                  *)
(***************************************************************************)
\* the longest sequence of catalogs the backend returns
MaxItems == 2

(***************************************************************************)
(* Strings: Go strings are TLA+ strings; strings.ToUpper, %d and %s are    *)
(* computed character by character.                                        *)
(***************************************************************************)
UpperChar(c) ==
  CASE c = "a" -> "A" [] c = "b" -> "B" [] c = "c" -> "C" [] c = "d" -> "D"
    [] c = "e" -> "E" [] c = "f" -> "F" [] c = "g" -> "G" [] c = "h" -> "H"
    [] c = "i" -> "I" [] c = "j" -> "J" [] c = "k" -> "K" [] c = "l" -> "L"
    [] c = "m" -> "M" [] c = "n" -> "N" [] c = "o" -> "O" [] c = "p" -> "P"
    [] c = "q" -> "Q" [] c = "r" -> "R" [] c = "s" -> "S" [] c = "t" -> "T"
    [] c = "u" -> "U" [] c = "v" -> "V" [] c = "w" -> "W" [] c = "x" -> "X"
    [] c = "y" -> "Y" [] c = "z" -> "Z" [] OTHER -> c

RECURSIVE ToUpper(_)
ToUpper(s) ==
  IF s = "" THEN ""
  ELSE UpperChar(SubSeq(s, 1, 1)) \o ToUpper(SubSeq(s, 2, Len(s)))

Digit(d) ==
  CASE d = 0 -> "0" [] d = 1 -> "1" [] d = 2 -> "2" [] d = 3 -> "3"
    [] d = 4 -> "4" [] d = 5 -> "5" [] d = 6 -> "6" [] d = 7 -> "7"
    [] d = 8 -> "8" [] d = 9 -> "9"

\* fmt's %d of a non-negative int
RECURSIVE Itoa(_)
Itoa(n) == IF n < 10 THEN Digit(n) ELSE Itoa(n \div 10) \o Digit(n % 10)

(***************************************************************************)
(* Go values: errors, argument values, catalogs, slices and pointers       *)
(***************************************************************************)
NilError == [isNil |-> TRUE, msg |-> ""]
Errorf(m) == [isNil |-> FALSE, msg |-> m]

\* a value of request.Params.Arguments: a JSON string, another JSON type,
\* or no entry under the key
Absent == [kind |-> "absent", str |-> ""]
NonString == [kind |-> "number", str |-> ""]
Str(s) == [kind |-> "string", str |-> s]

Lookup(args, key) == IF key \in DOMAIN args THEN args[key] ELSE Absent

\* v, ok := request.Params.Arguments[key].(string)
StringArg(args, key) ==
  LET v == Lookup(args, key)
  IN  [ok |-> v.kind = "string", val |-> IF v.kind = "string" THEN v.str ELSE ""]

Catalog1 == [ID |-> "1", Name |-> "vpc", Type |-> "terraform", VCS |-> "GITHUB",
             Slug |-> "vpc-tf", Description |-> "network", Version |-> "1.0"]
Catalog2 == [ID |-> "2", Name |-> "web", Type |-> "ansible", VCS |-> "GITLAB",
             Slug |-> "web-an", Description |-> "servers", Version |-> "2.1"]
Catalogs == {Catalog1, Catalog2}

RECURSIVE SeqsUpTo(_, _)
SeqsUpTo(S, n) ==
  IF n = 0 THEN {<<>>}
  ELSE LET shorter == SeqsUpTo(S, n - 1)
       IN  shorter \cup {Append(s, x) : s \in {t \in shorter : Len(t) = n - 1}, x \in S}

\* []*enbuild.Catalog
NilSlice == [isNil |-> TRUE, items |-> <<>>]
Slice(items) == [isNil |-> FALSE, items |-> items]
\* *enbuild.Catalog
NilPtr == [isNil |-> TRUE, cat |-> Catalog1]
Ptr(c) == [isNil |-> FALSE, cat |-> c]

\* len(catalogs)
GoLen(sl) == Len(sl.items)

(***************************************************************************)
(* The SDK (github.com/vivsoftorg/enbuild-sdk-go), an external             *)
(* collaborator: what it answers is an input of the call.                  *)
(***************************************************************************)
BackendErrors == {"connection refused", "401 Unauthorized"}

\* the answers of Catalogs.List
ListAnswers ==
  [catalogs : {NilSlice}, err : {Errorf(e) : e \in BackendErrors}]
    \cup [catalogs : {NilSlice} \cup {Slice(s) : s \in SeqsUpTo(Catalogs, MaxItems)},
          err : {NilError}]

\* the answers of Catalogs.Get
GetAnswers ==
  [catalog : {NilPtr}, err : {Errorf(e) : e \in BackendErrors}]
    \cup [catalog : {NilPtr} \cup {Ptr(c) : c \in Catalogs}, err : {NilError}]

\* the answers of enbuild.NewClient
NewClientAnswers == {NilError, Errorf("invalid base URL")}


\* the answers of generateTableOutput (part_002 calls it; its body is not
\* among the sources): a rendered table, or an error
TableAnswers == {[str |-> "+----+------+", err |-> NilError],
                 [str |-> "", err |-> Errorf("unsupported data type")]}

(***************************************************************************)
(* src/pkg/enbuild/client.go: the wrapper used by part_000 and part_002    *)
(***************************************************************************)
\* CatalogListOptions, and a nil *CatalogListOptions
ListOptions(name, type, vcs) == [isNil |-> FALSE, Name |-> name, Type |-> type, VCS |-> vcs]
NilOptions == [isNil |-> TRUE, Name |-> "", Type |-> "", VCS |-> ""]

WithProfile(profile) == [name |-> "WithProfile", val |-> profile]
WithAuthToken(token) == [name |-> "WithAuthToken", val |-> token]
WithBaseURL(baseURL) == [name |-> "WithBaseURL", val |-> baseURL]

\* option(client): what the closure returned by each With... does to *Client
ApplyOption(c, o) ==
  CASE o.name = "WithProfile" -> [c EXCEPT !.profile = o.val]
    [] o.name = "WithBaseURL" -> [c EXCEPT !.baseURL = o.val]
    [] OTHER -> c  \* WithAuthToken, WithTimeout: empty closure bodies

RECURSIVE ApplyOptions(_, _)
ApplyOptions(c, options) ==
  IF options = <<>> THEN c
  ELSE ApplyOptions(ApplyOption(c, Head(options)), Tail(options))

\* the options of the SDK's own NewClient
SdkWithDebug(b) == [name |-> "WithDebug", val |-> IF b THEN "true" ELSE "false"]
SdkWithBaseURL(u) == [name |-> "WithBaseURL", val |-> u]
SdkWithKeycloakAuth(u, p) == [name |-> "WithKeycloakAuth", val |-> u \o ":" \o p]

\* NewClient: the client, the error, and the SDK client construction attempted
NewClient(options, sdkAnswer) ==
  LET client == ApplyOptions([profile |-> "", baseURL |-> ""], options)
      sdkOptions == <<SdkWithDebug(FALSE)>>
                      \o (IF client.baseURL # "" THEN <<SdkWithBaseURL(client.baseURL)>> ELSE <<>>)
  IN  [isNil |-> ~sdkAnswer.isNil,
       err |-> sdkAnswer,
       sdkOptions |-> sdkOptions]

\* one call of the SDK, with what it answered
SdkList(opts, answer) == [op |-> "List", id |-> "", opts |-> opts, ret |-> answer]
SdkGet(id, opts, answer) == [op |-> "Get", id |-> id, opts |-> opts, ret |-> answer]

\* ListCatalogs calling the SDK a second time when the first call fails
ListCatalogs_Retry(options, answer) ==
  LET sdkOptions == IF options.isNil THEN ListOptions("", "", "")
                    ELSE ListOptions(options.Name, options.Type, options.VCS)
      call == SdkList(sdkOptions, answer)
  IN  [calls |-> IF answer.err.isNil THEN <<call>> ELSE <<call, call>>,
       catalogs |-> answer.catalogs, err |-> answer.err]

\* ListCatalogs dropping the first catalog of the answer
ListCatalogs_DropsFirst(options, answer) ==
  LET sdkOptions == IF options.isNil THEN ListOptions("", "", "")
                    ELSE ListOptions(options.Name, options.Type, options.VCS)
  IN  [calls |-> <<SdkList(sdkOptions, answer)>>,
       catalogs |-> IF answer.catalogs.items = <<>> THEN answer.catalogs
                    ELSE Slice(Tail(answer.catalogs.items)),
       err |-> answer.err]

\* (c *Client) ListCatalogs(options)
ListCatalogs(options, answer) ==
  LET sdkOptions == IF options.isNil THEN ListOptions("", "", "")
                    ELSE ListOptions(options.Name, options.Type, options.VCS)
  IN  [calls |-> <<SdkList(sdkOptions, answer)>>,
       catalogs |-> answer.catalogs, err |-> answer.err]

\* GetCatalog handing the caller's options pointer to the SDK as it is
GetCatalog_NilOptions(id, options, answer) ==
  [calls |-> <<SdkGet(id, options, answer)>>,
   catalog |-> answer.catalog, err |-> answer.err]

\* (c *Client) GetCatalog(id, options)
GetCatalog(id, options, answer) ==
  LET sdkOptions == IF options.isNil THEN ListOptions("", "", "")
                    ELSE ListOptions(options.Name, options.Type, options.VCS)
  IN  [calls |-> <<SdkGet(id, sdkOptions, answer)>>,
       catalog |-> answer.catalog, err |-> answer.err]

\* (c *Client) FilterCatalogsByVCS(vcs)
FilterCatalogsByVCS(vcs, answer) == ListCatalogs(ListOptions("", "", vcs), answer)

(***************************************************************************)
(* CatalogResponse and its serialization                                   *)
(***************************************************************************)
\* response.Data, an interface{}: nil, a []*Catalog or a *Catalog
DataNone == [kind |-> "nil", isNil |-> TRUE, items |-> <<>>]
DataSlice(sl) == [kind |-> "slice", isNil |-> sl.isNil, items |-> sl.items]
DataPtr(p) == [kind |-> "ptr", isNil |-> p.isNil, items |-> IF p.isNil THEN <<>> ELSE <<p.cat>>]

\* a CatalogResponse literal that leaves Count unset
CatalogResponse_CountUnset(success, message, count, data) ==
  [Success |-> success, Message |-> message, Count |-> 0, Data |-> data, Table |-> ""]

CatalogResponse(success, message, count, data) ==
  [Success |-> success, Message |-> message, Count |-> count, Data |-> data, Table |-> ""]

\* the JSON value of response.Data
JsonOfData(d) ==
  IF d.isNil THEN [json |-> "null", items |-> <<>>]
  ELSE IF d.kind = "slice" THEN [json |-> "array", items |-> d.items]
  ELSE [json |-> "object", items |-> d.items]

\* the struct tags of CatalogResponse, in field order
JsonFields == <<"success", "message", "count", "data", "table">>

\* omitempty: false, 0, "" and a nil interface are left out
Emitted(response, key) ==
  CASE key = "success" -> TRUE
    [] key = "message" -> response.Message # ""
    [] key = "count" -> response.Count # 0
    [] key = "data" -> response.Data.kind # "nil"
    [] key = "table" -> response.Table # ""

\* json.MarshalIndent(response, "", "  "): the members written, in order
MarshalIndent(response) ==
  LET Keep(k) == Emitted(response, k)
      keys == SelectSeq(JsonFields, Keep)
  IN  [format |-> "json",
       keys |-> keys,
       obj |-> [k \in {keys[i] : i \in DOMAIN keys} |->
                  CASE k = "success" -> response.Success
                    [] k = "message" -> response.Message
                    [] k = "count" -> response.Count
                    [] k = "data" -> JsonOfData(response.Data)
                    [] k = "table" -> response.Table]]

\* json.Unmarshal of a data member into the interface{} field: null leaves
\* the nil interface, an array gives a sequence, an object a single value
FromJson(j) ==
  CASE j.json = "null" -> DataNone
    [] j.json = "array" -> [kind |-> "slice", isNil |-> FALSE, items |-> j.items]
    [] j.json = "object" -> [kind |-> "ptr", isNil |-> FALSE, items |-> j.items]

\* json.Unmarshal(text, &response): a member that is not in the document
\* leaves the zero value of its field
Unmarshal(doc) ==
  LET Has(k) == k \in DOMAIN doc.obj
  IN  [Success |-> doc.obj.success,
       Message |-> IF Has("message") THEN doc.obj.message ELSE "",
       Count |-> IF Has("count") THEN doc.obj.count ELSE 0,
       Data |-> IF Has("data") THEN FromJson(doc.obj.data) ELSE DataNone,
       Table |-> IF Has("table") THEN doc.obj.table ELSE ""]

\* mcp.NewToolResultText, and a nil *mcp.CallToolResult
NewToolResultText(text) == [isNil |-> FALSE, text |-> text]
NilResult == [isNil |-> TRUE, text |-> [format |-> "none"]]

\* what a handler invocation did: clients lists the NewClient calls, calls
\* the SDK operations, renders the table renderings, response the
\* CatalogResponse values built, setenv the os.Setenv calls (no handler
\* makes one); result and err are what it returned
NoTrace == [creds |-> <<>>, clients |-> <<>>, calls |-> <<>>, renders |-> <<>>,
            response |-> <<>>, setenv |-> <<>>]

\* Return with the handler exporting the token it resolved
Return_ExportsToken(trace, result, err) ==
  [creds |-> trace.creds, clients |-> trace.clients, calls |-> trace.calls,
   renders |-> trace.renders, response |-> trace.response,
   setenv |-> IF trace.creds # <<>> /\ trace.creds[1].token # ""
              THEN <<[name |-> "ENBUILD_API_TOKEN", value |-> trace.creds[1].token]>>
              ELSE <<>>,
   result |-> result, err |-> err]

\* Return with the handler clearing the token variable once it has a client
Return_ClearsToken(trace, result, err) ==
  [creds |-> trace.creds, clients |-> trace.clients, calls |-> trace.calls,
   renders |-> trace.renders, response |-> trace.response,
   setenv |-> IF trace.clients # <<>>
              THEN <<[name |-> "ENBUILD_API_TOKEN", value |-> ""]>>
              ELSE <<>>,
   result |-> result, err |-> err]

Return(trace, result, err) ==
  [creds |-> trace.creds, clients |-> trace.clients, calls |-> trace.calls,
   renders |-> trace.renders, response |-> trace.response, setenv |-> trace.setenv,
   result |-> result, err |-> err]

\* formatErrorResponse dropping the underlying error text
formatErrorResponse_LabelOnly(trace, message, err) ==
  LET response == [Success |-> FALSE, Message |-> message,
                   Count |-> 0, Data |-> DataNone, Table |-> ""]
  IN  Return([trace EXCEPT !.response = Append(@, response)],
             NewToolResultText(MarshalIndent(response)), NilError)

\* formatErrorResponse (part_000 311-323, part_001 296-308, part_002 342-354)
formatErrorResponse(trace, message, err) ==
  LET response == [Success |-> FALSE,
                   Message |-> message \o ": " \o err.msg,
                   Count |-> 0, Data |-> DataNone, Table |-> ""]
  IN  Return([trace EXCEPT !.response = Append(@, response)],
             NewToolResultText(MarshalIndent(response)), NilError)

\* formatJSONResponse of part_000 and part_001
formatJSONResponse(trace, response) ==
  Return([trace EXCEPT !.response = Append(@, response)],
         NewToolResultText(MarshalIndent(response)), NilError)

\* formatJSONResponse of part_002 returning the rendering error to the caller
formatJSONResponse_002_RenderErrorReturned(trace, response, tableAnswer) ==
  LET render == response.Success /\ response.Count > 0
      t == [trace EXCEPT !.response = Append(@, response),
                         !.renders = IF render THEN Append(@, tableAnswer) ELSE @]
  IN  IF render /\ ~tableAnswer.err.isNil
      THEN Return(t, NilResult, Errorf("error generating table: " \o tableAnswer.err.msg))
      ELSE Return(t,
                  NewToolResultText(MarshalIndent(
                    IF render THEN [response EXCEPT !.Table = tableAnswer.str]
                    ELSE response)),
                  NilError)

\* formatJSONResponse of part_002: the table is rendered for a success with
\* count > 0 and kept when rendering succeeds
formatJSONResponse_002(trace, response, tableAnswer) ==
  LET render == response.Success /\ response.Count > 0
      withTable == IF render /\ tableAnswer.err.isNil
                   THEN [response EXCEPT !.Table = tableAnswer.str]
                   ELSE response
  IN  Return([trace EXCEPT !.response = Append(@, response),
                           !.renders = IF render THEN Append(@, tableAnswer) ELSE @],
             NewToolResultText(MarshalIndent(withTable)), NilError)

(***************************************************************************)
(* src/unnamed/part_002: token and base URL, validated arguments           *)
(***************************************************************************)
\* os.Getenv
Getenv(env, name) == env[name]

\* the credentials a call resolved
Creds(token, baseURL, username, password) ==
  [token |-> token, baseURL |-> baseURL, username |-> username, password |-> password]

getToken(args) == StringArg(args, "token").val

getSearchParams(args) ==
  [name |-> StringArg(args, "name").val,
   catalogType |-> StringArg(args, "type").val,
   vcs |-> StringArg(args, "vcs").val]

initializeClient_002(env, token, ncAnswer) ==
  LET envToken == Getenv(env, "ENBUILD_API_TOKEN")
      baseURL == Getenv(env, "ENBUILD_BASE_URL")
  IN  IF token = "" /\ envToken = ""
      THEN [err |-> Errorf("API token is required but not provided"),
            creds |-> <<>>, clients |-> <<>>]
      ELSE IF baseURL = ""
      THEN [err |-> Errorf("base URL is required but not provided"),
            creds |-> <<>>, clients |-> <<>>]
      ELSE LET used == IF token # "" THEN token ELSE envToken
               c == NewClient(<<WithAuthToken(used), WithBaseURL(baseURL)>>, ncAnswer)
           IN  [err |-> c.err, creds |-> <<Creds(used, baseURL, "", "")>>, clients |-> <<c>>]

listCatalogs_002(args, env, ans) ==
  LET given == StringArg(args, "vcs").val
      vcs == ToUpper(given)
  IN  IF given = ""
      THEN formatErrorResponse(NoTrace, "Missing required parameter",
                               Errorf("VCS parameter is required (GITHUB or GITLAB)"))
      ELSE IF vcs # "GITHUB" /\ vcs # "GITLAB"
      THEN formatErrorResponse(NoTrace, "Invalid VCS value",
                               Errorf("VCS must be either GITHUB or GITLAB"))
      ELSE
        LET ic == initializeClient_002(env, getToken(args), ans.newClient)
            t1 == [NoTrace EXCEPT !.creds = ic.creds, !.clients = ic.clients]
        IN  IF ~ic.err.isNil
            THEN formatErrorResponse(t1, "Failed to initialize ENBUILD client", ic.err)
            ELSE
              LET r == FilterCatalogsByVCS(vcs, ans.list)
                  t2 == [t1 EXCEPT !.calls = r.calls]
              IN  IF ~r.err.isNil
                  THEN formatErrorResponse(t2, "Failed to list catalogs", r.err)
                  ELSE formatJSONResponse_002(t2,
                         CatalogResponse(TRUE,
                           "Successfully retrieved " \o Itoa(GoLen(r.catalogs))
                             \o " catalogs for VCS: " \o vcs,
                           GoLen(r.catalogs), DataSlice(r.catalogs)),
                         ans.table)

getCatalogDetails_002(args, env, ans) ==
  LET id == StringArg(args, "id")
  IN  IF ~id.ok \/ id.val = ""
      THEN formatErrorResponse(NoTrace, "Missing required parameter",
                               Errorf("catalog ID is required"))
      ELSE
        LET ic == initializeClient_002(env, getToken(args), ans.newClient)
            t1 == [NoTrace EXCEPT !.creds = ic.creds, !.clients = ic.clients]
        IN  IF ~ic.err.isNil
            THEN formatErrorResponse(t1, "Failed to initialize ENBUILD client", ic.err)
            ELSE
              LET r == GetCatalog(id.val, NilOptions, ans.get)
                  t2 == [t1 EXCEPT !.calls = r.calls]
              IN  IF ~r.err.isNil
                  THEN formatErrorResponse(t2, "Failed to get catalog details", r.err)
                  ELSE formatJSONResponse_002(t2,
                         CatalogResponse(TRUE,
                           "Successfully retrieved details for catalog ID: " \o id.val,
                           1, DataPtr(r.catalog)),
                         ans.table)

\* searchCatalogs checking the vcs before the name and the type
searchCatalogs_002_VCSFirst(args, env, ans) ==
  LET p == getSearchParams(args)
      vcs == ToUpper(p.vcs)
  IN  IF p.vcs = ""
      THEN formatErrorResponse(NoTrace, "Missing required parameter",
                               Errorf("VCS parameter is required (GITHUB or GITLAB)"))
      ELSE IF vcs # "GITHUB" /\ vcs # "GITLAB"
      THEN formatErrorResponse(NoTrace, "Invalid VCS value",
                               Errorf("VCS must be either GITHUB or GITLAB"))
      ELSE IF p.name = ""
      THEN formatErrorResponse(NoTrace, "Missing required parameter",
                               Errorf("name parameter is required"))
      ELSE IF p.catalogType = ""
      THEN formatErrorResponse(NoTrace, "Missing required parameter",
                               Errorf("type parameter is required"))
      ELSE
        LET ic == initializeClient_002(env, getToken(args), ans.newClient)
            t1 == [NoTrace EXCEPT !.creds = ic.creds, !.clients = ic.clients]
        IN  IF ~ic.err.isNil
            THEN formatErrorResponse(t1, "Failed to initialize ENBUILD client", ic.err)
            ELSE
              LET r == ListCatalogs(ListOptions(p.name, p.catalogType, vcs), ans.list)
                  t2 == [t1 EXCEPT !.calls = r.calls]
                  filterDesc == "name: '" \o p.name \o "', type: '" \o p.catalogType
                                  \o "', vcs: '" \o vcs \o "'"
              IN  IF ~r.err.isNil
                  THEN formatErrorResponse(t2, "Failed to search catalogs", r.err)
                  ELSE formatJSONResponse_002(t2,
                         CatalogResponse(TRUE,
                           "Found " \o Itoa(GoLen(r.catalogs))
                             \o " catalogs matching filters: " \o filterDesc,
                           GoLen(r.catalogs), DataSlice(r.catalogs)),
                         ans.table)

searchCatalogs_002(args, env, ans) ==
  LET p == getSearchParams(args)
      vcs == ToUpper(p.vcs)
  IN  IF p.name = ""
      THEN formatErrorResponse(NoTrace, "Missing required parameter",
                               Errorf("name parameter is required"))
      ELSE IF p.catalogType = ""
      THEN formatErrorResponse(NoTrace, "Missing required parameter",
                               Errorf("type parameter is required"))
      ELSE IF p.vcs = ""
      THEN formatErrorResponse(NoTrace, "Missing required parameter",
                               Errorf("VCS parameter is required (GITHUB or GITLAB)"))
      ELSE IF vcs # "GITHUB" /\ vcs # "GITLAB"
      THEN formatErrorResponse(NoTrace, "Invalid VCS value",
                               Errorf("VCS must be either GITHUB or GITLAB"))
      ELSE
        LET ic == initializeClient_002(env, getToken(args), ans.newClient)
            t1 == [NoTrace EXCEPT !.creds = ic.creds, !.clients = ic.clients]
        IN  IF ~ic.err.isNil
            THEN formatErrorResponse(t1, "Failed to initialize ENBUILD client", ic.err)
            ELSE
              LET r == ListCatalogs(ListOptions(p.name, p.catalogType, vcs), ans.list)
                  t2 == [t1 EXCEPT !.calls = r.calls]
                  filterDesc == "name: '" \o p.name \o "', type: '" \o p.catalogType
                                  \o "', vcs: '" \o vcs \o "'"
              IN  IF ~r.err.isNil
                  THEN formatErrorResponse(t2, "Failed to search catalogs", r.err)
                  ELSE formatJSONResponse_002(t2,
                         CatalogResponse(TRUE,
                           "Found " \o Itoa(GoLen(r.catalogs))
                             \o " catalogs matching filters: " \o filterDesc,
                           GoLen(r.catalogs), DataSlice(r.catalogs)),
                         ans.table)

(***************************************************************************)
(* src/unnamed/part_001: username, password and base URL; the SDK client   *)
(* is used directly                                                        *)
(***************************************************************************)
prepareClientOptions(env, baseURL, username, password) ==
  <<SdkWithDebug(Getenv(env, "ENBUILD_DEBUG") = "true"),
    SdkWithBaseURL(baseURL),
    SdkWithKeycloakAuth(username, password)>>

\* getCredentials preferring the environment to the arguments
getCredentials_EnvFirst(args, env) ==
  LET u0 == Getenv(env, "ENBUILD_USERNAME")
      p0 == Getenv(env, "ENBUILD_PASSWORD")
      b0 == Getenv(env, "ENBUILD_BASE_URL")
      baseURL == IF b0 = "" THEN StringArg(args, "base_url").val ELSE b0
      username == IF u0 = "" THEN StringArg(args, "username").val ELSE u0
      password == IF p0 = "" THEN StringArg(args, "password").val ELSE p0
  IN  IF baseURL = "" \/ username = "" \/ password = ""
      THEN [baseURL |-> "", username |-> "", password |-> "",
            err |-> Errorf("Missing required credentials: baseURL, username, or password")]
      ELSE [baseURL |-> baseURL, username |-> username, password |-> password,
            err |-> NilError]

getCredentials(args, env) ==
  LET u0 == StringArg(args, "username").val
      p0 == StringArg(args, "password").val
      b0 == StringArg(args, "base_url").val
      baseURL == IF b0 = "" THEN Getenv(env, "ENBUILD_BASE_URL") ELSE b0
      username == IF u0 = "" THEN Getenv(env, "ENBUILD_USERNAME") ELSE u0
      password == IF p0 = "" THEN Getenv(env, "ENBUILD_PASSWORD") ELSE p0
  IN  IF baseURL = "" \/ username = "" \/ password = ""
      THEN [baseURL |-> "", username |-> "", password |-> "",
            err |-> Errorf("Missing required credentials: baseURL, username, or password")]
      ELSE [baseURL |-> baseURL, username |-> username, password |-> password,
            err |-> NilError]

\* initializeClient: enbuild.NewClient(prepareClientOptions(...)...)
initializeClient_001(env, baseURL, username, password, ncAnswer) ==
  [isNil |-> ~ncAnswer.isNil,
   err |-> ncAnswer,
   sdkOptions |-> prepareClientOptions(env, baseURL, username, password)]

\* listCatalogs resolving the credentials before it looks at the vcs
listCatalogs_001_CredentialsFirst(args, env, ans) ==
  LET given == StringArg(args, "vcs").val
      vcs == ToUpper(given)
      cr == getCredentials(args, env)
      t0 == [NoTrace EXCEPT
               !.creds = <<Creds("", cr.baseURL, cr.username, cr.password)>>]
  IN  IF ~cr.err.isNil
      THEN formatErrorResponse(NoTrace, "Missing credentials", cr.err)
      ELSE IF given = ""
      THEN formatErrorResponse(t0, "Missing required parameter",
                               Errorf("VCS parameter is required (GITHUB or GITLAB)"))
      ELSE IF vcs # "GITHUB" /\ vcs # "GITLAB"
      THEN formatErrorResponse(t0, "Invalid VCS value",
                               Errorf("VCS must be either GITHUB or GITLAB"))
      ELSE
        LET c == initializeClient_001(env, cr.baseURL, cr.username, cr.password,
                                      ans.newClient)
            t1 == [t0 EXCEPT !.clients = <<c>>]
        IN  IF ~c.err.isNil
            THEN formatErrorResponse(t1, "Failed to initialize ENBUILD client", c.err)
            ELSE
              LET t2 == [t1 EXCEPT !.calls =
                           <<SdkList(ListOptions("", "", vcs), ans.list)>>]
                  catalogs == ans.list.catalogs
              IN  IF ~ans.list.err.isNil
                  THEN formatErrorResponse(t2, "Failed to list catalogs", ans.list.err)
                  ELSE formatJSONResponse(t2,
                         CatalogResponse(TRUE,
                           "Successfully retrieved " \o Itoa(GoLen(catalogs))
                             \o " catalogs for VCS: " \o vcs,
                           GoLen(catalogs), DataSlice(catalogs)))

listCatalogs_001(args, env, ans) ==
  LET given == StringArg(args, "vcs").val
      vcs == ToUpper(given)
  IN  IF given = ""
      THEN formatErrorResponse(NoTrace, "Missing required parameter",
                               Errorf("VCS parameter is required (GITHUB or GITLAB)"))
      ELSE IF vcs # "GITHUB" /\ vcs # "GITLAB"
      THEN formatErrorResponse(NoTrace, "Invalid VCS value",
                               Errorf("VCS must be either GITHUB or GITLAB"))
      ELSE
        LET cr == getCredentials(args, env)
        IN  IF ~cr.err.isNil
            THEN formatErrorResponse(NoTrace, "Missing credentials", cr.err)
            ELSE
              LET c == initializeClient_001(env, cr.baseURL, cr.username, cr.password,
                                            ans.newClient)
                  t1 == [NoTrace EXCEPT
                           !.creds = <<Creds("", cr.baseURL, cr.username, cr.password)>>,
                           !.clients = <<c>>]
              IN  IF ~c.err.isNil
                  THEN formatErrorResponse(t1, "Failed to initialize ENBUILD client", c.err)
                  ELSE
                    LET t2 == [t1 EXCEPT !.calls =
                                 <<SdkList(ListOptions("", "", vcs), ans.list)>>]
                        catalogs == ans.list.catalogs
                    IN  IF ~ans.list.err.isNil
                        THEN formatErrorResponse(t2, "Failed to list catalogs", ans.list.err)
                        ELSE formatJSONResponse(t2,
                               CatalogResponse(TRUE,
                                 "Successfully retrieved " \o Itoa(GoLen(catalogs))
                                   \o " catalogs for VCS: " \o vcs,
                                 GoLen(catalogs), DataSlice(catalogs)))

getCatalogDetails_001(args, env, ans) ==
  LET id == StringArg(args, "id")
  IN  IF ~id.ok \/ id.val = ""
      THEN formatErrorResponse(NoTrace, "Missing required parameter",
                               Errorf("catalog ID is required"))
      ELSE
        LET cr == getCredentials(args, env)
        IN  IF ~cr.err.isNil
            THEN formatErrorResponse(NoTrace, "Missing credentials", cr.err)
            ELSE
              LET c == initializeClient_001(env, cr.baseURL, cr.username, cr.password,
                                            ans.newClient)
                  t1 == [NoTrace EXCEPT
                           !.creds = <<Creds("", cr.baseURL, cr.username, cr.password)>>,
                           !.clients = <<c>>]
              IN  IF ~c.err.isNil
                  THEN formatErrorResponse(t1, "Failed to initialize ENBUILD client", c.err)
                  ELSE
                    LET t2 == [t1 EXCEPT !.calls = <<SdkGet(id.val, NilOptions, ans.get)>>]
                    IN  IF ~ans.get.err.isNil
                        THEN formatErrorResponse(t2, "Failed to get catalog details",
                                                 ans.get.err)
                        ELSE formatJSONResponse(t2,
                               CatalogResponse(TRUE,
                                 "Successfully retrieved details for catalog ID: " \o id.val,
                                 1, DataPtr(ans.get.catalog)))

searchCatalogs_001(args, env, ans) ==
  LET p == getSearchParams(args)
      vcs == ToUpper(p.vcs)
  IN  IF p.name = ""
      THEN formatErrorResponse(NoTrace, "Missing required parameter",
                               Errorf("name parameter is required"))
      ELSE IF p.catalogType = ""
      THEN formatErrorResponse(NoTrace, "Missing required parameter",
                               Errorf("type parameter is required"))
      ELSE IF p.vcs = ""
      THEN formatErrorResponse(NoTrace, "Missing required parameter",
                               Errorf("VCS parameter is required (GITHUB or GITLAB)"))
      ELSE IF vcs # "GITHUB" /\ vcs # "GITLAB"
      THEN formatErrorResponse(NoTrace, "Invalid VCS value",
                               Errorf("VCS must be either \"GITHUB\" or \"GITLAB\""))
      ELSE
        LET cr == getCredentials(args, env)
        IN  IF ~cr.err.isNil
            THEN formatErrorResponse(NoTrace, "Missing credentials", cr.err)
            ELSE
              LET c == initializeClient_001(env, cr.baseURL, cr.username, cr.password,
                                            ans.newClient)
                  t1 == [NoTrace EXCEPT
                           !.creds = <<Creds("", cr.baseURL, cr.username, cr.password)>>,
                           !.clients = <<c>>]
              IN  IF ~c.err.isNil
                  THEN formatErrorResponse(t1, "Failed to initialize ENBUILD client", c.err)
                  ELSE
                    LET t2 == [t1 EXCEPT !.calls =
                                 <<SdkList(ListOptions(p.name, p.catalogType, vcs), ans.list)>>]
                        catalogs == ans.list.catalogs
                        filterDesc == "name: '" \o p.name \o "', type: '" \o p.catalogType
                                        \o "', vcs: '" \o vcs \o "'"
                    IN  IF ~ans.list.err.isNil
                        THEN formatErrorResponse(t2, "Failed to search catalogs", ans.list.err)
                        ELSE formatJSONResponse(t2,
                               CatalogResponse(TRUE,
                                 "Found " \o Itoa(GoLen(catalogs))
                                   \o " catalogs matching filters: " \o filterDesc,
                                 GoLen(catalogs), DataSlice(catalogs)))

(***************************************************************************)
(* src/unnamed/part_000: token; arguments are passed on as given           *)
(***************************************************************************)
initializeClient_000(env, token, ncAnswer) ==
  LET envToken == Getenv(env, "ENBUILD_API_TOKEN")
      used == IF token # "" THEN token ELSE envToken
      options == IF used # "" THEN <<WithAuthToken(used)>> ELSE <<>>
      c == NewClient(options, ncAnswer)
  IN  [err |-> c.err, creds |-> <<Creds(used, "", "", "")>>, clients |-> <<c>>]

listCatalogs_000(args, env, ans) ==
  LET vcs == StringArg(args, "vcs").val
      ic == initializeClient_000(env, getToken(args), ans.newClient)
      t1 == [NoTrace EXCEPT !.creds = ic.creds, !.clients = ic.clients]
  IN  IF ~ic.err.isNil
      THEN formatErrorResponse(t1, "Failed to initialize ENBUILD client", ic.err)
      ELSE
        LET r == FilterCatalogsByVCS(vcs, ans.list)
            t2 == [t1 EXCEPT !.calls = r.calls]
        IN  IF ~r.err.isNil
            THEN formatErrorResponse(t2, "Failed to list catalogs", r.err)
            ELSE formatJSONResponse(t2,
                   CatalogResponse(TRUE,
                     "Successfully retrieved " \o Itoa(GoLen(r.catalogs))
                       \o " catalogs for VCS: " \o vcs,
                     GoLen(r.catalogs), DataSlice(r.catalogs)))

getCatalogDetails_000(args, env, ans) ==
  LET id == StringArg(args, "id").val
      ic == initializeClient_000(env, getToken(args), ans.newClient)
      t1 == [NoTrace EXCEPT !.creds = ic.creds, !.clients = ic.clients]
  IN  IF ~ic.err.isNil
      THEN formatErrorResponse(t1, "Failed to initialize ENBUILD client", ic.err)
      ELSE
        LET r == GetCatalog(id, NilOptions, ans.get)
            t2 == [t1 EXCEPT !.calls = r.calls]
        IN  IF ~r.err.isNil
            THEN formatErrorResponse(t2, "Failed to get catalog details", r.err)
            ELSE formatJSONResponse(t2,
                   CatalogResponse(TRUE,
                     "Successfully retrieved details for catalog ID: " \o id,
                     1, DataPtr(r.catalog)))

searchCatalogs_000(args, env, ans) ==
  LET p == getSearchParams(args)
      ic == initializeClient_000(env, getToken(args), ans.newClient)
      t1 == [NoTrace EXCEPT !.creds = ic.creds, !.clients = ic.clients]
  IN  IF ~ic.err.isNil
      THEN formatErrorResponse(t1, "Failed to initialize ENBUILD client", ic.err)
      ELSE
        LET r == ListCatalogs(ListOptions(p.name, p.catalogType, p.vcs), ans.list)
            t2 == [t1 EXCEPT !.calls = r.calls]
            filterDesc == "name: '" \o p.name \o "'"
                            \o (IF p.catalogType # ""
                                THEN ", type: '" \o p.catalogType \o "'" ELSE "")
                            \o (IF p.vcs # "" THEN ", vcs: '" \o p.vcs \o "'" ELSE "")
        IN  IF ~r.err.isNil
            THEN formatErrorResponse(t2, "Failed to search catalogs", r.err)
            ELSE formatJSONResponse(t2,
                   CatalogResponse(TRUE,
                     "Found " \o Itoa(GoLen(r.catalogs))
                       \o " catalogs matching filters: " \o filterDesc,
                     GoLen(r.catalogs), DataSlice(r.catalogs)))

(***************************************************************************)
(* src/unnamed/part_005: the wrapper used by src/mcpenbuild.go             *)
(***************************************************************************)
\* NewClient: no option reaches the SDK
NewClient_005(options, sdkAnswer) ==
  [isNil |-> ~sdkAnswer.isNil,
   err |-> sdkAnswer,
   sdkOptions |-> <<SdkWithDebug(FALSE)>>]

\* ListCatalogs(opts...): an empty options value when none (or nil) is given
ListCatalogs_005(options, answer) ==
  LET sdkOptions == IF options.isNil THEN ListOptions("", "", "") ELSE options
  IN  [calls |-> <<SdkList(sdkOptions, answer)>>,
       catalogs |-> answer.catalogs, err |-> answer.err]

GetCatalog_005(id, options, answer) ==
  LET sdkOptions == IF options.isNil THEN ListOptions("", "", "") ELSE options
  IN  [calls |-> <<SdkGet(id, sdkOptions, answer)>>,
       catalog |-> answer.catalog, err |-> answer.err]

SearchCatalogs_005(name, answer) ==
  [calls |-> <<SdkList(ListOptions(name, "", ""), answer)>>,
   catalogs |-> answer.catalogs, err |-> answer.err]

FilterCatalogsByType_005(catalogType, answer) ==
  [calls |-> <<SdkList(ListOptions("", catalogType, ""), answer)>>,
   catalogs |-> answer.catalogs, err |-> answer.err]

FilterCatalogsByVCS_005(vcs, answer) ==
  [calls |-> <<SdkList(ListOptions("", "", vcs), answer)>>,
   catalogs |-> answer.catalogs, err |-> answer.err]

(***************************************************************************)
(* src/mcpenbuild.go: five tools answering in plain text; a failure is     *)
(* returned as (nil, error)                                                *)
(***************************************************************************)
PlainText(str) == [format |-> "plain", str |-> str]

\* "- ID: %v, Name: %s, Type: %s, VCS: %s, Slug: %s\n"
CatalogLine(c) ==
  "- ID: " \o c.ID \o ", Name: " \o c.Name \o ", Type: " \o c.Type
    \o ", VCS: " \o c.VCS \o ", Slug: " \o c.Slug \o "\n"

RECURSIVE CatalogLines(_)
CatalogLines(items) ==
  IF items = <<>> THEN "" ELSE CatalogLine(Head(items)) \o CatalogLines(Tail(items))

\* options from the token argument, then NewClient(options...)
initializeClient_main(token, ncAnswer) ==
  LET c == NewClient_005(IF token # "" THEN <<WithAuthToken(token)>> ELSE <<>>, ncAnswer)
  IN  [err |-> c.err, creds |-> <<Creds(token, "", "", "")>>, clients |-> <<c>>]

\* the common shape of the four list-like handlers: r is the wrapper call's
\* outcome, label the error prefix, text the formatted success
ListReply(ic, r, label, text) ==
  LET t1 == [NoTrace EXCEPT !.creds = ic.creds, !.clients = ic.clients]
      t2 == [t1 EXCEPT !.calls = r.calls]
  IN  IF ~ic.err.isNil
      THEN Return(t1, NilResult,
                  Errorf("failed to initialize ENBUILD client: " \o ic.err.msg))
      ELSE IF ~r.err.isNil
      THEN Return(t2, NilResult, Errorf(label \o ": " \o r.err.msg))
      ELSE Return(t2, NewToolResultText(PlainText(text)), NilError)

listCatalogs_main(args, env, ans) ==
  LET ic == initializeClient_main(getToken(args), ans.newClient)
      r == ListCatalogs_005(NilOptions, ans.list)
  IN  ListReply(ic, r, "failed to list catalogs",
                "Catalogs:\n" \o CatalogLines(r.catalogs.items))

getCatalog_main(args, env, ans) ==
  LET id == StringArg(args, "id").val
      ic == initializeClient_main(getToken(args), ans.newClient)
      t1 == [NoTrace EXCEPT !.creds = ic.creds, !.clients = ic.clients]
      r == GetCatalog_005(id, NilOptions, ans.get)
      t2 == [t1 EXCEPT !.calls = r.calls]
      c == r.catalog.cat
  IN  IF ~ic.err.isNil
      THEN Return(t1, NilResult,
                  Errorf("failed to initialize ENBUILD client: " \o ic.err.msg))
      ELSE IF ~r.err.isNil
      THEN Return(t2, NilResult, Errorf("failed to get catalog details: " \o r.err.msg))
      ELSE IF r.catalog.isNil
      THEN \* catalog.ID of a nil *Catalog panics; server.WithRecovery turns
           \* the panic into the handler's error
           Return(t2, NilResult,
                  Errorf("panic recovered in get-catalog tool handler: "
                           \o "runtime error: invalid memory address or nil pointer dereference"))
      ELSE Return(t2,
                  NewToolResultText(PlainText(
                    "Catalog Details:\n"
                      \o "- ID: " \o c.ID \o "\n"
                      \o "- Name: " \o c.Name \o "\n"
                      \o "- Description: " \o c.Description \o "\n"
                      \o "- Type: " \o c.Type \o "\n"
                      \o "- VCS: " \o c.VCS \o "\n"
                      \o "- Slug: " \o c.Slug \o "\n"
                      \o "- Version: " \o c.Version \o "\n")),
                  NilError)

searchCatalogs_main(args, env, ans) ==
  LET name == StringArg(args, "name").val
      ic == initializeClient_main(getToken(args), ans.newClient)
      r == SearchCatalogs_005(name, ans.list)
  IN  ListReply(ic, r, "failed to search catalogs",
                "Search Results for '" \o name \o "':\n"
                  \o (IF GoLen(r.catalogs) = 0
                      THEN "No catalogs found matching the search criteria.\n"
                      ELSE CatalogLines(r.catalogs.items)))

filterCatalogsByType_main(args, env, ans) ==
  LET catalogType == StringArg(args, "type").val
      ic == initializeClient_main(getToken(args), ans.newClient)
      r == FilterCatalogsByType_005(catalogType, ans.list)
  IN  ListReply(ic, r, "failed to filter catalogs",
                "Catalogs of type '" \o catalogType \o "':\n"
                  \o (IF GoLen(r.catalogs) = 0
                      THEN "No catalogs found matching the filter criteria.\n"
                      ELSE CatalogLines(r.catalogs.items)))

filterCatalogsByVCS_main(args, env, ans) ==
  LET vcs == StringArg(args, "vcs").val
      ic == initializeClient_main(getToken(args), ans.newClient)
      r == FilterCatalogsByVCS_005(vcs, ans.list)
  IN  ListReply(ic, r, "failed to filter catalogs",
                "Catalogs from VCS '" \o vcs \o "':\n"
                  \o (IF GoLen(r.catalogs) = 0
                      THEN "No catalogs found matching the filter criteria.\n"
                      ELSE CatalogLines(r.catalogs.items)))

(***************************************************************************)
(* Tool registration and dispatch                                          *)
(***************************************************************************)
Variants == {"mcpenbuild", "part_000", "part_001", "part_002"}

\* required: the parameters declared with mcp.Required()
Tool(handler, params, required) ==
  [handler |-> handler, params |-> params, required |-> required]

\* registerTools of each program: tool name -> handler and declared parameters
registerTools_main ==
  [t \in {"list-catalogs", "get-catalog", "search-catalogs",
          "filter-catalogs-by-type", "filter-catalogs-by-vcs"} |->
     CASE t = "list-catalogs" -> Tool("listCatalogs", {"token"}, {})
       [] t = "get-catalog" -> Tool("getCatalog", {"id", "token"}, {"id"})
       [] t = "search-catalogs" -> Tool("searchCatalogs", {"name", "token"}, {"name"})
       [] t = "filter-catalogs-by-type" -> Tool("filterCatalogsByType", {"type", "token"}, {"type"})
       [] t = "filter-catalogs-by-vcs" -> Tool("filterCatalogsByVCS", {"vcs", "token"}, {"vcs"})]

registerTools_000 ==
  [t \in {"list_catalogs", "get_catalog_details", "search_catalogs"} |->
     CASE t = "list_catalogs" -> Tool("listCatalogs", {"vcs", "token"}, {"vcs"})
       [] t = "get_catalog_details" -> Tool("getCatalogDetails", {"id", "token"}, {"id"})
       [] t = "search_catalogs" -> Tool("searchCatalogs", {"name", "type", "vcs", "token"},
                 {"name", "type", "vcs"})]

registerTools_002 ==
  [t \in {"list_catalogs", "get_catalog_details", "search_catalogs"} |->
     CASE t = "list_catalogs" -> Tool("listCatalogs", {"vcs", "token"}, {"vcs"})
       [] t = "get_catalog_details" -> Tool("getCatalogDetails", {"id", "token"}, {"id"})
       [] t = "search_catalogs" -> Tool("searchCatalogs", {"name", "type", "vcs", "token"},
                 {"name", "type", "vcs"})]

registerTools_001 ==
  [t \in {"get_catalog_details", "search_catalogs"} |->
     CASE t = "get_catalog_details" ->
            Tool("getCatalogDetails", {"id", "username", "password"}, {"id"})
       [] t = "search_catalogs" ->
            Tool("listCatalogs", {"name", "type", "vcs", "username", "password"},
                 {"name", "type", "vcs"})]

registerTools(v) ==
  CASE v = "mcpenbuild" -> registerTools_main
    [] v = "part_000" -> registerTools_000
    [] v = "part_001" -> registerTools_001
    [] v = "part_002" -> registerTools_002

\* the handler function a registered tool is bound to
Handle(v, handler, args, env, ans) ==
  CASE v = "mcpenbuild" /\ handler = "listCatalogs" -> listCatalogs_main(args, env, ans)
    [] v = "mcpenbuild" /\ handler = "getCatalog" -> getCatalog_main(args, env, ans)
    [] v = "mcpenbuild" /\ handler = "searchCatalogs" -> searchCatalogs_main(args, env, ans)
    [] v = "mcpenbuild" /\ handler = "filterCatalogsByType" ->
         filterCatalogsByType_main(args, env, ans)
    [] v = "mcpenbuild" /\ handler = "filterCatalogsByVCS" ->
         filterCatalogsByVCS_main(args, env, ans)
    [] v = "part_000" /\ handler = "listCatalogs" -> listCatalogs_000(args, env, ans)
    [] v = "part_000" /\ handler = "getCatalogDetails" -> getCatalogDetails_000(args, env, ans)
    [] v = "part_000" /\ handler = "searchCatalogs" -> searchCatalogs_000(args, env, ans)
    [] v = "part_001" /\ handler = "listCatalogs" -> listCatalogs_001(args, env, ans)
    [] v = "part_001" /\ handler = "getCatalogDetails" -> getCatalogDetails_001(args, env, ans)
    [] v = "part_001" /\ handler = "searchCatalogs" -> searchCatalogs_001(args, env, ans)
    [] v = "part_002" /\ handler = "listCatalogs" -> listCatalogs_002(args, env, ans)
    [] v = "part_002" /\ handler = "getCatalogDetails" -> getCatalogDetails_002(args, env, ans)
    [] v = "part_002" /\ handler = "searchCatalogs" -> searchCatalogs_002(args, env, ans)

(***************************************************************************)
(* The inputs of a call: the argument values a client may send, and the    *)
(* answers of the SDK                                                      *)
(***************************************************************************)
ArgValues(key) ==
  CASE key = "vcs" -> {Absent, NonString, Str(""), Str("github"), Str("GitLab"),
                       Str("GITHUB"), Str("svn")}
    [] key = "id" -> {Absent, NonString, Str(""), Str("42")}
    [] key = "name" -> {Absent, Str(""), Str("terraform")}
    [] key = "type" -> {Absent, Str(""), Str("ansible")}
    [] key = "token" -> {Absent, Str("argtok")}
    [] key = "username" -> {Absent, Str("alice")}
    [] key = "password" -> {Absent, Str("secret")}
    [] key = "base_url" -> {Absent, Str("https://arg.example")}

\* the argument mappings over a set of keys
RECURSIVE ArgMaps(_)
ArgMaps(keys) ==
  IF keys = {} THEN {[k \in {} |-> Absent]}
  ELSE LET k == CHOOSE x \in keys : TRUE
       IN  {(k :> v) @@ m : v \in ArgValues(k), m \in ArgMaps(keys \ {k})}

\* the argument mappings sent to a tool: its declared parameters, and for
\* part_001 the base_url its getCredentials also reads
ArgumentsOf(v, tool) ==
  ArgMaps(tool.params \cup (IF v = "part_001" THEN {"base_url"} ELSE {}))

NoListAnswer == [catalogs |-> NilSlice, err |-> NilError]
NoGetAnswer == [catalog |-> NilPtr, err |-> NilError]
NoTableAnswer == [str |-> "", err |-> NilError]

\* the answers a handler may consume
AnswersOf(v, tool) ==
  LET isGet == tool.handler \in {"getCatalog", "getCatalogDetails"}
  IN  [newClient : NewClientAnswers,
       list : IF isGet THEN {NoListAnswer} ELSE ListAnswers,
       get : IF isGet THEN GetAnswers ELSE {NoGetAnswer},
       table : IF v = "part_002" THEN TableAnswers ELSE {NoTableAnswer}]

(***************************************************************************)
(* Startup: main() and run() of each program                               *)
(***************************************************************************)
EnvNames == {"ENBUILD_API_TOKEN", "ENBUILD_BASE_URL", "ENBUILD_USERNAME",
             "ENBUILD_PASSWORD", "ENBUILD_DEBUG"}

\* os.Setenv
Setenv(env, name, value) == [env EXCEPT ![name] = value]

\* the default of the --base-url flag in part_001
DefaultBaseURL == "https://enbuild.vivplatform.io"

\* the value of a flag after flag.Parse()
FlagValue(flags, name, default) ==
  IF name \in DOMAIN flags /\ flags[name].kind = "string" THEN flags[name].str ELSE default

\* run treating an unknown transport name as stdio
run_DefaultsToStdio(transport, startErr) ==
  CASE transport = "sse" ->
         [listeners |-> {"sse"},
          err |-> IF startErr.isNil THEN NilError
                  ELSE Errorf("server error: " \o startErr.msg)]
    [] OTHER -> [listeners |-> {"stdio"}, err |-> NilError]

\* run() of part_001 and part_002: the transport started, or the error
\* returned.  startErr is the error of srv.Start (SSE); a stdio server
\* listens until its input ends.
run(transport, startErr) ==
  CASE transport = "stdio" -> [listeners |-> {"stdio"}, err |-> NilError]
    [] transport = "sse" ->
         [listeners |-> {"sse"},
          err |-> IF startErr.isNil THEN NilError
                  ELSE Errorf("server error: " \o startErr.msg)]
    [] OTHER ->
         [listeners |-> {},
          err |-> Errorf("invalid transport type: " \o transport
                           \o ". Must be 'stdio' or 'sse'")]

\* run() of mcpenbuild.go and part_000: the same switch, the messages
\* capitalised
run_main(transport, startErr) ==
  CASE transport = "stdio" -> [listeners |-> {"stdio"}, err |-> NilError]
    [] transport = "sse" ->
         [listeners |-> {"sse"},
          err |-> IF startErr.isNil THEN NilError
                  ELSE Errorf("Server error: " \o startErr.msg)]
    [] OTHER ->
         [listeners |-> {},
          err |-> Errorf("Invalid transport type: " \o transport
                           \o ". Must be 'stdio' or 'sse'")]

\* the end of every main(): log.Fatalf("Error: %v", err) on the error of run
Started(env, r) ==
  [env |-> env, listeners |-> r.listeners,
   phase |-> IF r.err.isNil THEN "serving" ELSE "exited",
   exitCode |-> IF r.err.isNil THEN -1 ELSE 1,
   fatal |-> IF r.err.isNil THEN "" ELSE "Error: " \o r.err.msg]

\* log.Fatalf before run
Fatal(env, msg) ==
  [env |-> env, listeners |-> {}, phase |-> "exited", exitCode |-> 1, fatal |-> msg]

\* main of mcpenbuild.go (132-160) and of part_000 (128-164)
main_main(flags, env, startErr) ==
  LET token == FlagValue(flags, "token", "")
      baseURL == FlagValue(flags, "base-url", "")
      e1 == IF token # "" THEN Setenv(env, "ENBUILD_API_TOKEN", token) ELSE env
      e2 == IF baseURL # "" THEN Setenv(e1, "ENBUILD_BASE_URL", baseURL) ELSE e1
  IN  Started(e2, run_main(FlagValue(flags, "transport", "stdio"), startErr))

\* main of part_002 (125-158)
main_002(flags, env, startErr) ==
  LET ftoken == FlagValue(flags, "token", "")
      fbase == FlagValue(flags, "base-url", "")
      token == IF ftoken = "" THEN Getenv(env, "ENBUILD_API_TOKEN") ELSE ftoken
      baseURL == IF fbase = "" THEN Getenv(env, "ENBUILD_BASE_URL") ELSE fbase
  IN  IF token = ""
      THEN Fatal(env, "Error: ENBUILD API token is required. Provide it via --token flag "
                        \o "or ENBUILD_API_TOKEN environment variable")
      ELSE IF baseURL = ""
      THEN Fatal(env, "Error: ENBUILD base URL is required. Provide it via --base-url flag "
                        \o "or ENBUILD_BASE_URL environment variable")
      ELSE Started(Setenv(Setenv(env, "ENBUILD_API_TOKEN", token),
                          "ENBUILD_BASE_URL", baseURL),
                   run(FlagValue(flags, "transport", "stdio"), startErr))

\* setEnvOrExit of part_001 (112-120)
setEnvOrExit(env, envVar, value, flagName) ==
  LET v == IF value = "" THEN Getenv(env, envVar) ELSE value
  IN  IF v = ""
      THEN [exit |-> TRUE, env |-> env,
            msg |-> "Error: ENVBUILD API " \o envVar \o " is required. Provide it via "
                      \o flagName \o " or " \o envVar \o " environment variable"]
      ELSE [exit |-> FALSE, env |-> Setenv(env, envVar, v), msg |-> ""]

\* main of part_001 (91-110)
main_001(flags, env, startErr) ==
  LET s1 == setEnvOrExit(env, "ENBUILD_USERNAME", FlagValue(flags, "username", ""),
                         "--username flag")
      s2 == setEnvOrExit(s1.env, "ENBUILD_PASSWORD", FlagValue(flags, "password", ""),
                         "--password flag")
      s3 == setEnvOrExit(s2.env, "ENBUILD_BASE_URL",
                         FlagValue(flags, "base-url", DefaultBaseURL), "--base-url flag")
  IN  IF s1.exit THEN Fatal(s1.env, s1.msg)
      ELSE IF s2.exit THEN Fatal(s2.env, s2.msg)
      ELSE IF s3.exit THEN Fatal(s3.env, s3.msg)
      ELSE Started(s3.env, run(FlagValue(flags, "transport", "stdio"), startErr))

MainOf(v, flags, env, startErr) ==
  CASE v \in {"mcpenbuild", "part_000"} -> main_main(flags, env, startErr)
    [] v = "part_001" -> main_001(flags, env, startErr)
    [] v = "part_002" -> main_002(flags, env, startErr)

(***************************************************************************)
(* The command lines and environments a run starts from                    *)
(***************************************************************************)
FlagNames(v) ==
  IF v = "part_001" THEN {"username", "password", "base-url", "transport"}
  ELSE {"token", "base-url", "transport"}

FlagValues(name) ==
  CASE name = "token" -> {Absent, Str("flagtok")}
    [] name = "username" -> {Absent, Str("flaguser")}
    [] name = "password" -> {Absent, Str("flagpw")}
    [] name = "base-url" -> {Absent, Str(""), Str("https://flag.example")}
    [] name = "transport" -> {Absent, Str("sse"), Str("http")}

RECURSIVE FlagMaps(_)
FlagMaps(names) ==
  IF names = {} THEN {[k \in {} |-> Absent]}
  ELSE LET k == CHOOSE x \in names : TRUE
       IN  {(k :> v) @@ m : v \in FlagValues(k), m \in FlagMaps(names \ {k})}

\* the variables a program reads may be set; the others are unset
EnvValues(v, name) ==
  CASE name = "ENBUILD_API_TOKEN" -> IF v = "part_001" THEN {""} ELSE {"", "envtok"}
    [] name = "ENBUILD_BASE_URL" -> {"", "https://env.example"}
    [] name = "ENBUILD_USERNAME" -> IF v = "part_001" THEN {"", "envuser"} ELSE {""}
    [] name = "ENBUILD_PASSWORD" -> IF v = "part_001" THEN {"", "envpw"} ELSE {""}
    [] name = "ENBUILD_DEBUG" -> {""}

Environments(v) == {e \in [EnvNames -> {"", "envtok", "https://env.example", "envuser", "envpw"}] :
                      \A n \in EnvNames : e[n] \in EnvValues(v, n)}

StartErrors == {NilError, Errorf("listen tcp :8080: bind: address already in use")}

(***************************************************************************)
(* The state machine                                                       *)
(***************************************************************************)
NoCall == [tool |-> "", handler |-> "", args |-> [k \in {} |-> Absent],
           out |-> Return(NoTrace, NilResult, NilError)]

\* the os.Setenv calls of a handler, applied in order
RECURSIVE ApplySetenv(_, _)
ApplySetenv(env, writes) ==
  IF writes = <<>> THEN env
  ELSE ApplySetenv(Setenv(env, Head(writes).name, Head(writes).value), Tail(writes))

Init ==
  /\ variant \in Variants
  /\ environ \in Environments(variant)
  /\ \E f \in FlagMaps(FlagNames(variant)) : boot = [flags |-> f, env |-> environ]
  /\ phase = "boot"
  /\ listeners = {}
  /\ exitCode = -1
  /\ fatal = ""
  /\ last = NoCall
  /\ prev = NoCall

\* main(): flags, environment, run
Main ==
  /\ phase = "boot"
  /\ \E startErr \in StartErrors :
       LET m == MainOf(variant, boot.flags, environ, startErr)
       IN  /\ environ' = m.env
           /\ phase' = m.phase
           /\ listeners' = m.listeners
           /\ exitCode' = m.exitCode
           /\ fatal' = m.fatal
  /\ UNCHANGED <<variant, boot, last, prev>>

\* one tools/call request, handled to completion; the server is waiting
\* for a request (the previous response has been written).  CallTool takes
\* a request with any arguments while no invocation is kept in prev.
CallWith(name, args) ==
  /\ phase = "serving"
  /\ last = NoCall
  /\ LET tool == registerTools(variant)[name]
     IN  \E ans \in AnswersOf(variant, tool) :
           LET out == Handle(variant, tool.handler, args, environ, ans)
           IN  /\ last' = [tool |-> name, handler |-> tool.handler, args |-> args,
                            out |-> out]
               /\ environ' = ApplySetenv(environ, out.setenv)
  /\ UNCHANGED <<variant, boot, phase, listeners, exitCode, fatal, prev>>

CallTool(name) ==
  /\ phase = "serving"
  /\ last = NoCall /\ prev = NoCall
  /\ name \in DOMAIN registerTools(variant)
  /\ \E args \in ArgumentsOf(variant, registerTools(variant)[name]) : CallWith(name, args)

\* the transport writes the response; the call's values are discarded
Respond ==
  /\ phase = "serving"
  /\ last # NoCall
  /\ last' = NoCall
  /\ UNCHANGED <<variant, environ, boot, phase, listeners, exitCode, fatal, prev>>

ListCatalogsTool == \E n \in {"list_catalogs", "list-catalogs"} : CallTool(n)
GetCatalogTool == \E n \in {"get_catalog_details", "get-catalog"} : CallTool(n)
SearchCatalogsTool == \E n \in {"search_catalogs", "search-catalogs"} : CallTool(n)
FilterCatalogsByTypeTool == CallTool("filter-catalogs-by-type")
FilterCatalogsByVCSTool == CallTool("filter-catalogs-by-vcs")

Next ==
  \/ Main
  \/ ListCatalogsTool
  \/ GetCatalogTool
  \/ SearchCatalogsTool
  \/ FilterCatalogsByTypeTool
  \/ FilterCatalogsByVCSTool
  \/ Respond

Spec == Init /\ [][Next]_vars

(***************************************************************************)
(* Two invocations: the record of one invocation is kept in prev while     *)
(* the server goes on handling requests (over SSE every request has its    *)
(* own goroutine and handlers overlap; a handler shares nothing with       *)
(* another but the process environment).  The runs start with no flag      *)
(* given and every variable the program reads set.                         *)
(***************************************************************************)
InitPair ==
  /\ Init
  /\ \A n \in DOMAIN boot.flags : boot.flags[n] = Absent
  /\ \A n \in EnvNames : EnvValues(variant, n) # {""} => environ[n] # ""

\* the invocation in last is kept: its response is not yet written, or is
\* kept by the client, while further requests arrive
Keep ==
  /\ phase = "serving"
  /\ last # NoCall /\ prev = NoCall
  /\ prev' = last
  /\ last' = NoCall
  /\ UNCHANGED <<variant, environ, boot, phase, listeners, exitCode, fatal>>

\* the kept invocation is let go
Release ==
  /\ phase = "serving"
  /\ last = NoCall /\ prev # NoCall
  /\ prev' = NoCall
  /\ UNCHANGED <<variant, environ, boot, phase, listeners, exitCode, fatal, last>>

\* the same tool is invoked with the same arguments as the kept invocation
CallAgain ==
  /\ prev # NoCall
  /\ CallWith(prev.tool, prev.args)

\* between the two, a get-by-id call of any arguments is handled and its
\* response written
CallBetween ==
  /\ phase = "serving"
  /\ last = NoCall /\ prev # NoCall
  /\ \E name \in {"get_catalog_details", "get-catalog"} \cap DOMAIN registerTools(variant) :
       LET tool == registerTools(variant)[name]
       IN  \E args \in ArgumentsOf(variant, tool), ans \in AnswersOf(variant, tool) :
             environ' = ApplySetenv(environ,
                          Handle(variant, tool.handler, args, environ, ans).setenv)
  /\ UNCHANGED <<variant, boot, phase, listeners, exitCode, fatal, last, prev>>

NextPair ==
  \/ Main
  \/ ListCatalogsTool
  \/ GetCatalogTool
  \/ SearchCatalogsTool
  \/ FilterCatalogsByTypeTool
  \/ FilterCatalogsByVCSTool
  \/ Keep
  \/ CallAgain
  \/ CallBetween
  \/ Respond
  \/ Release

SpecPair == InitPair /\ [][NextPair]_vars

(***************************************************************************)
(* The handlers and the wrapper methods as functions: each handler of a    *)
(* program, registered or not, applied to any arguments in any             *)
(* environment, and each method of the program's wrapper applied to any    *)
(* input, with any answer of the SDK.                                      *)
(***************************************************************************)
\* the handler functions of a program: those registerTools binds to a tool,
\* and searchCatalogs of part_001, which no tool is bound to
HandlersOf(v) ==
  {registerTools(v)[n] : n \in DOMAIN registerTools(v)}
    \cup (IF v = "part_001"
          THEN {Tool("searchCatalogs", {"name", "type", "vcs", "username", "password"},
                     {"name", "type", "vcs"})}
          ELSE {})

\* the methods of the wrapper a program uses (part_001 uses none)
WrapperMethods(v) ==
  CASE v \in {"part_000", "part_002"} -> {"ListCatalogs", "GetCatalog", "FilterCatalogsByVCS"}
    [] v = "mcpenbuild" -> {"ListCatalogs", "GetCatalog", "SearchCatalogs",
                            "FilterCatalogsByType", "FilterCatalogsByVCS"}
    [] v = "part_001" -> {}

\* the inputs of a wrapper method: an id, an options pointer, a string
WrapperInputs ==
  [id : {"", "42"},
   options : {NilOptions} \cup {ListOptions(n, t, v) : n \in {"", "terraform"},
                                  t \in {"", "ansible"}, v \in {"", "GITHUB"}},
   str : {"", "GITHUB", "terraform"}]

\* the method of the program's wrapper, applied
WrapperCall(v, method, in, ans) ==
  IF v = "mcpenbuild"
  THEN CASE method = "ListCatalogs" -> ListCatalogs_005(in.options, ans.list)
         [] method = "GetCatalog" -> GetCatalog_005(in.id, in.options, ans.get)
         [] method = "SearchCatalogs" -> SearchCatalogs_005(in.str, ans.list)
         [] method = "FilterCatalogsByType" -> FilterCatalogsByType_005(in.str, ans.list)
         [] method = "FilterCatalogsByVCS" -> FilterCatalogsByVCS_005(in.str, ans.list)
  ELSE CASE method = "ListCatalogs" -> ListCatalogs(in.options, ans.list)
         [] method = "GetCatalog" -> GetCatalog(in.id, in.options, ans.get)
         [] method = "FilterCatalogsByVCS" -> FilterCatalogsByVCS(in.str, ans.list)

InitFunctions ==
  /\ variant \in Variants
  /\ environ \in Environments(variant)
  /\ boot = [flags |-> [n \in FlagNames(variant) |-> Absent], env |-> environ]
  /\ phase = "function"
  /\ listeners = {}
  /\ exitCode = -1
  /\ fatal = ""
  /\ last = NoCall
  /\ prev = NoCall

\* a handler function is called
ApplyHandler ==
  /\ phase = "function"
  /\ last = NoCall
  /\ \E tool \in HandlersOf(variant) :
       \E args \in ArgumentsOf(variant, tool), ans \in AnswersOf(variant, tool) :
         LET out == Handle(variant, tool.handler, args, environ, ans)
         IN  /\ last' = [tool |-> "", handler |-> tool.handler, args |-> args, out |-> out]
             /\ environ' = ApplySetenv(environ, out.setenv)
  /\ UNCHANGED <<variant, boot, phase, listeners, exitCode, fatal, prev>>

\* a method of the wrapper is called
ApplyWrapper ==
  /\ phase = "function"
  /\ last = NoCall
  /\ \E method \in WrapperMethods(variant), in \in WrapperInputs :
       \E ans \in [list : ListAnswers, get : GetAnswers] :
         /\ method = "GetCatalog" => ans.list = NoListAnswer
         /\ method # "GetCatalog" => ans.get = NoGetAnswer
         /\ last' = [tool |-> "", handler |-> method, args |-> in,
                     out |-> WrapperCall(variant, method, in, ans)]
  /\ UNCHANGED <<variant, environ, boot, phase, listeners, exitCode, fatal, prev>>

\* the result is consumed
Discard ==
  /\ phase = "function"
  /\ last # NoCall
  /\ last' = NoCall
  /\ UNCHANGED <<variant, environ, boot, phase, listeners, exitCode, fatal, prev>>

NextFunctions ==
  \/ ApplyHandler
  \/ ApplyWrapper
  \/ Discard

SpecFunctions == InitFunctions /\ [][NextFunctions]_vars

(***************************************************************************)
(* Reading the record of a call                                            *)
(***************************************************************************)
Called == last # NoCall
Out == last.out
Doc == last.out.result.text
ThisTool == registerTools(variant)[last.tool]

HasPrefix(str, prefix) ==
  Len(str) >= Len(prefix) /\ SubSeq(str, 1, Len(prefix)) = prefix
HasSuffix(str, suffix) ==
  Len(str) >= Len(suffix) /\ SubSeq(str, Len(str) - Len(suffix) + 1, Len(str)) = suffix

IsEnvelope == ~Out.result.isNil /\ Doc.format = "json"
HasKey(k) == \E i \in DOMAIN Doc.keys : Doc.keys[i] = k
IsFailureEnvelope == IsEnvelope /\ Doc.obj.success = FALSE /\ HasKey("message")
IsSuccessEnvelope == IsEnvelope /\ Doc.obj.success = TRUE
ClientInitFailed == \E i \in DOMAIN Out.clients : ~Out.clients[i].err.isNil
BackendFailed == \E i \in DOMAIN Out.calls : ~Out.calls[i].ret.err.isNil
ClientReady == Out.clients # <<>> /\ ~ClientInitFailed
IsGet == last.handler \in {"getCatalog", "getCatalogDetails"}

\* the string a handler reads under a key: "" when absent or not a string
ArgString(k) == StringArg(last.args, k).val
TakesVCS == "vcs" \in ThisTool.params
Canonical == ToUpper(ArgString("vcs"))
ValidVCS == Canonical \in {"GITHUB", "GITLAB"}

\* the CatalogResponse value the handler serialized
Built == Out.response[Len(Out.response)]

\* the number of catalogs the backend returned to the (single) call
Returned == IF IsGet THEN 1 ELSE GoLen(Out.calls[1].ret.catalogs)

MissingMessage(field) ==
  "Missing required parameter: "
    \o (CASE field = "id" -> "catalog ID is required"
          [] field = "name" -> "name parameter is required"
          [] field = "type" -> "type parameter is required"
          [] field = "vcs" -> "VCS parameter is required (GITHUB or GITLAB)")

MissingFields == {f \in ThisTool.required : ArgString(f) = ""}

(***************************************************************************)
(* C1..C10                                                                 *)
(***************************************************************************)

\* C1: every per-call failure (a validation error or missing credentials,
\* which end the handler before a client is built; a client initialisation
\* error; a backend call error) is returned as a failure envelope with a nil
\* Go error, never as (nil result, error).
C1_FailuresAreEnvelopes ==
  Called /\ (Out.clients = <<>> \/ ClientInitFailed \/ BackendFailed)
    => IsFailureEnvelope /\ Out.err.isNil

\* C2: a call in which a parameter the tool requires is absent or empty is
\* rejected with the "Missing required parameter" failure naming such a
\* parameter.
C2_MissingFieldRejected ==
  Called /\ MissingFields # {}
    => /\ IsFailureEnvelope
       /\ Doc.obj.message \in {MissingMessage(f) : f \in MissingFields}

\* C3: for a vcs argument equal to github or gitlab up to case, the VCS
\* handed to the backend list operation and the one shown in the success
\* message is the uppercase form.
C3_VCSUppercased ==
  Called /\ TakesVCS /\ ValidVCS
    => /\ \A i \in DOMAIN Out.calls :
            Out.calls[i].op = "List" => Out.calls[i].opts.VCS = Canonical
       /\ IsSuccessEnvelope =>
            \/ HasSuffix(Doc.obj.message, "VCS: " \o Canonical)
            \/ HasSuffix(Doc.obj.message, "vcs: '" \o Canonical \o "'")

\* C4: with the other required parameters present, an empty or absent vcs
\* yields the missing-parameter failure, a non-empty vcs that is neither
\* GITHUB nor GITLAB in upper case yields the invalid-value failure, and
\* neither call reaches the backend.
C4_VCSMissingOrInvalid ==
  Called /\ TakesVCS /\ MissingFields \subseteq {"vcs"} /\ ~ValidVCS
    => /\ IsFailureEnvelope
       /\ Out.calls = <<>>
       /\ IF ArgString("vcs") = ""
          THEN HasPrefix(Doc.obj.message, "Missing required parameter")
          ELSE HasPrefix(Doc.obj.message, "Invalid VCS value")

\* C5 as stated: every success envelope carries a count member equal to the
\* number of catalogs the backend returned (0 for an empty sequence), and 1
\* for a get-by-id.
C5_CountMemberEqualsReturned ==
  Called /\ IsSuccessEnvelope => HasKey("count") /\ Doc.obj.count = Returned

\* C5 amended: the Count of the response value equals the number of
\* catalogs the backend returned (1 for a get-by-id); the emitted envelope
\* carries it as the count member when it is at least 1 and carries no count
\* member when it is 0.
C5_CountEqualsReturnedOmittedWhenZero ==
  Called /\ IsSuccessEnvelope
    => /\ Len(Out.calls) = 1
       /\ Built.Count = Returned
       /\ Returned > 0 => HasKey("count") /\ Doc.obj.count = Returned
       /\ Returned = 0 => ~HasKey("count")

C5_Witness ==
  Called /\ IsSuccessEnvelope /\ ~IsGet /\ Returned = 2 /\ HasKey("count")

\* the stage label of a backend failure, per handler
BackendLabel ==
  CASE last.handler = "listCatalogs" -> "Failed to list catalogs"
    [] last.handler = "getCatalogDetails" -> "Failed to get catalog details"
    [] last.handler = "searchCatalogs" -> "Failed to search catalogs"

\* the messages of the failures raised before a client is built
EarlyFailureMessages ==
  {MissingMessage(f) : f \in {"id", "name", "type", "vcs"}}
    \cup {"Invalid VCS value: VCS must be either GITHUB or GITLAB",
          "Invalid VCS value: VCS must be either \"GITHUB\" or \"GITLAB\"",
          "Missing credentials: Missing required credentials: baseURL, username, or password",
          "Failed to initialize ENBUILD client: API token is required but not provided",
          "Failed to initialize ENBUILD client: base URL is required but not provided"}

\* C6: every failure envelope has success=false, the message
\* "<stage label>: <underlying error text>" with the error text unchanged,
\* and no count, data or table member.
C6_FailureEnvelopeShape ==
  Called /\ IsEnvelope /\ Doc.obj.success = FALSE
    => /\ Doc.keys = <<"success", "message">>
       /\ Built.Count = 0 /\ Built.Data.kind = "nil" /\ Built.Table = ""
       /\ Doc.obj.message =
            IF BackendFailed
            THEN BackendLabel \o ": " \o Out.calls[1].ret.err.msg
            ELSE IF ClientInitFailed
            THEN "Failed to initialize ENBUILD client: " \o Out.clients[1].err.msg
            ELSE Doc.obj.message
       /\ ~BackendFailed /\ ~ClientInitFailed => Doc.obj.message \in EarlyFailureMessages

C6_Witness ==
  Called /\ IsFailureEnvelope /\ BackendFailed
    /\ Doc.obj.message = "Failed to search catalogs: connection refused"

\* C7: a call that passes validation and client initialisation invokes
\* exactly one backend operation, List for the list, search and filter
\* tools and Get for get-by-id, also when that operation fails; a success
\* response carries a sequence for the former and a single catalog for the
\* latter.
C7_ExactlyOneBackendCall ==
  Called /\ ClientReady
    => /\ Len(Out.calls) = 1
       /\ Out.calls[1].op = (IF IsGet THEN "Get" ELSE "List")
       /\ IsSuccessEnvelope => Built.Data.kind = (IF IsGet THEN "ptr" ELSE "slice")

C7_Witness ==
  Called /\ ClientReady /\ BackendFailed /\ Len(Out.calls) = 1 /\ ~IsGet

\* C8: search_catalogs with a non-empty name, an empty type and a valid vcs
\* yields exactly {success:false, message:"Missing required parameter: type
\* parameter is required"} and no backend call.
C8_SearchRequiresType ==
  Called /\ last.tool = "search_catalogs"
         /\ ArgString("name") # "" /\ ArgString("type") = "" /\ ValidVCS
    => /\ IsFailureEnvelope
       /\ Doc.keys = <<"success", "message">>
       /\ Doc.obj.message = "Missing required parameter: type parameter is required"
       /\ Out.calls = <<>>

\* C9: get_catalog_details with an id that is empty, absent or not a string
\* yields exactly {success:false, message:"Missing required parameter:
\* catalog ID is required"} and the backend Get is not invoked.
C9_GetRequiresId ==
  Called /\ last.tool = "get_catalog_details" /\ ArgString("id") = ""
    => /\ IsFailureEnvelope
       /\ Doc.keys = <<"success", "message">>
       /\ Doc.obj.message = "Missing required parameter: catalog ID is required"
       /\ Out.calls = <<>>

\* C10: list_catalogs with a vcs valid up to case, a client that initialises
\* and a backend that returns n items yields success, count n (omitted from
\* the JSON when 0), the message "Successfully retrieved n catalogs for VCS:
\* <UPPERCASE vcs>" and the n items as data, after one List call whose only
\* filter is the uppercase VCS.
C10_ListCatalogsScenario ==
  Called /\ last.tool = "list_catalogs" /\ ValidVCS /\ ClientReady
         /\ Out.calls # <<>> /\ ~BackendFailed
    => /\ IsSuccessEnvelope
       /\ Out.calls = <<SdkList(ListOptions("", "", Canonical), Out.calls[1].ret)>>
       /\ Built.Count = Returned
       /\ Doc.obj.message = "Successfully retrieved " \o Itoa(Returned)
                              \o " catalogs for VCS: " \o Canonical
       /\ HasKey("data") /\ Doc.obj.data.items = Out.calls[1].ret.catalogs.items

(***************************************************************************)
(* C11..C20                                                                *)
(***************************************************************************)

\* C11: when the backend Get fails in the get-by-id tool, called with a
\* non-empty id and a client that initialised, the result is the failure
\* envelope {success:false, message:"Failed to get catalog details: <error
\* text of the backend>"} and the handler's Go error is nil.
C11_GetBackendFailureEnvelope ==
  Called /\ IsGet /\ ArgString("id") # "" /\ BackendFailed
    => /\ IsFailureEnvelope
       /\ Doc.keys = <<"success", "message">>
       /\ Doc.obj.message = "Failed to get catalog details: " \o Out.calls[1].ret.err.msg
       /\ Out.err.isNil

\* the credentials a call needs: the argument and the environment variable
\* each may come from
CallCredentials ==
  IF variant = "part_001"
  THEN {[arg |-> "username", env |-> "ENBUILD_USERNAME"],
        [arg |-> "password", env |-> "ENBUILD_PASSWORD"],
        [arg |-> "base_url", env |-> "ENBUILD_BASE_URL"]}
  ELSE {[arg |-> "token", env |-> "ENBUILD_API_TOKEN"]}

CredentialMissing ==
  \E c \in CallCredentials : ArgString(c.arg) = "" /\ Getenv(environ, c.env) = ""

\* C12: a call for which a required credential is empty both in the
\* arguments and in its environment variable fails with a failure envelope,
\* creates no backend client and invokes no backend operation.
C12_MissingCredentialFails ==
  Called /\ CredentialMissing
    => IsFailureEnvelope /\ Out.clients = <<>> /\ Out.calls = <<>>

\* the startup settings of each program: the flag and the environment
\* variable each may come from
StartupSettings ==
  IF variant = "part_001"
  THEN {[flag |-> "username", env |-> "ENBUILD_USERNAME"],
        [flag |-> "password", env |-> "ENBUILD_PASSWORD"],
        [flag |-> "base-url", env |-> "ENBUILD_BASE_URL"]}
  ELSE {[flag |-> "token", env |-> "ENBUILD_API_TOKEN"],
        [flag |-> "base-url", env |-> "ENBUILD_BASE_URL"]}

\* the flag was given on the command line
FlagGiven(name) == Lookup(boot.flags, name).kind = "string"

SettingMissing ==
  \E s \in StartupSettings :
    FlagValue(boot.flags, s.flag, "") = "" /\ Getenv(boot.env, s.env) = ""

\* C13: when a required credential or the base URL is supplied neither by
\* flag nor by environment variable, main ends the process with a non-zero
\* status, no transport is started and the serving state is never reached.
C13_MissingSettingIsFatal ==
  phase # "boot" /\ SettingMissing
    => phase = "exited" /\ exitCode > 0 /\ listeners = {} /\ fatal # ""

\* the transport name main passes to run
Transport == FlagValue(boot.flags, "transport", "stdio")

\* main got as far as calling run: no fatal error about a missing setting
RunReached ==
  phase # "boot" /\ ~HasPrefix(fatal, "Error: ENBUILD ") /\ ~HasPrefix(fatal, "Error: ENVBUILD ")

\* C14: for a transport name other than stdio and sse, run starts no
\* listener and returns the "invalid transport type" error (spelled with a
\* capital I in mcpenbuild.go and part_000), which main logs as fatal with
\* exit status 1; for stdio only the stdio server and for sse only the SSE
\* server is started.
C14_TransportSelection ==
  RunReached
    => /\ Transport \notin {"stdio", "sse"}
            => /\ phase = "exited" /\ exitCode = 1 /\ listeners = {}
               /\ ToUpper(fatal) = ToUpper("Error: invalid transport type: " \o Transport
                                             \o ". Must be 'stdio' or 'sse'")
       /\ Transport \in {"stdio", "sse"} => listeners = {Transport}
       /\ phase = "serving" => Transport \in {"stdio", "sse"} /\ fatal = ""

C14_Witness ==
  /\ RunReached /\ variant = "part_002" /\ Transport = "http" /\ phase = "exited"
  /\ fatal = "Error: invalid transport type: http. Must be 'stdio' or 'sse'"

\* C15: for each startup setting whose flag is not given and whose
\* environment variable is set, the value of the environment variable is
\* the one tool calls see (os.Getenv) once the server is serving.
C15_EnvironmentIsFallback ==
  phase = "serving"
    => \A s \in StartupSettings :
         ~FlagGiven(s.flag) /\ Getenv(boot.env, s.env) # ""
           => Getenv(environ, s.env) = Getenv(boot.env, s.env)

\* the position of a member name among the struct tags of CatalogResponse
FieldPosition(k) == CHOOSE n \in DOMAIN JsonFields : JsonFields[n] = k

\* C16: every call that returns a result returns one JSON object whose
\* members are success (a boolean) and then those of message, count, data
\* and table that are not empty, in that order; no result is free-form text.
C16_AlwaysJsonEnvelope ==
  Called /\ ~Out.result.isNil
    => /\ Doc.format = "json"
       /\ Doc.keys # <<>> /\ Doc.keys[1] = "success" /\ Doc.obj.success \in BOOLEAN
       /\ \A i \in DOMAIN Doc.keys : \E n \in DOMAIN JsonFields : JsonFields[n] = Doc.keys[i]
       /\ \A i, j \in DOMAIN Doc.keys :
            i < j => FieldPosition(Doc.keys[i]) < FieldPosition(Doc.keys[j])
       /\ HasKey("message") => Doc.obj.message # ""
       /\ HasKey("count") => Doc.obj.count # 0
       /\ HasKey("table") => Doc.obj.table # ""

\* the renderings attempted by the call, and the one that failed
Rendered == Out.renders # <<>>
RenderFailed == Rendered /\ ~Out.renders[1].err.isNil

\* C17: formatJSONResponse of part_002 attempts the table rendering exactly
\* when the response is a success with count > 0; whether the rendering
\* succeeds or fails a result is returned with a nil error, and its success,
\* message, count and data are those of the response it was given; after a
\* failed rendering the envelope has no table member, after a successful
\* one it has the rendered table.
C17_RenderingLeavesEnvelope ==
  Called /\ variant = "part_002" /\ Out.response # <<>>
    => /\ Rendered <=> (Built.Success /\ Built.Count > 0)
       /\ Len(Out.renders) <= 1
       /\ IsEnvelope /\ Out.err.isNil
       /\ Doc.obj.success = Built.Success
       /\ IF HasKey("message") THEN Doc.obj.message = Built.Message ELSE Built.Message = ""
       /\ IF HasKey("count") THEN Doc.obj.count = Built.Count ELSE Built.Count = 0
       /\ IF HasKey("data") THEN Doc.obj.data = JsonOfData(Built.Data)
          ELSE Built.Data.kind = "nil"
       /\ RenderFailed \/ ~Rendered => ~HasKey("table")
       /\ Rendered /\ ~RenderFailed => HasKey("table") /\ Doc.obj.table = Out.renders[1].str

C17_Witness ==
  /\ Called /\ variant = "part_002" /\ RenderFailed
  /\ IsSuccessEnvelope /\ HasKey("data") /\ ~HasKey("table")
  /\ Doc.obj.count = 2 /\ Len(Doc.obj.data.items) = 2

\* C19: for every CatalogResponse a handler serializes, parsing the emitted
\* document back gives a value with the same success, message, count and
\* data.
C19_RoundTrip ==
  Called /\ IsEnvelope /\ Out.response # <<>>
    => LET back == Unmarshal(Doc)
       IN  /\ back.Success = Built.Success
           /\ back.Message = Built.Message
           /\ back.Count = Built.Count
           /\ back.Data = Built.Data

\* what the claim compares of a result: success, count and data of an
\* envelope (the whole text of a plain-text result), and the Go error
Core(out) ==
  IF out.result.isNil THEN [kind |-> "none", err |-> out.err]
  ELSE IF out.result.text.format = "json"
  THEN LET r == Unmarshal(out.result.text)
       IN  [kind |-> "envelope", success |-> r.Success, count |-> r.Count,
            data |-> r.Data, err |-> out.err]
  ELSE [kind |-> "text", text |-> out.result.text.str, err |-> out.err]

\* the answers the SDK (and the table renderer) gave to an invocation, as
\* its record shows them; what was not asked has the answer of a healthy
\* empty backend
AnswersGiven(out) ==
  [newClient |-> IF out.clients # <<>> THEN out.clients[1].err ELSE NilError,
   list |-> IF out.calls # <<>> /\ out.calls[1].op = "List"
            THEN out.calls[1].ret ELSE NoListAnswer,
   get |-> IF out.calls # <<>> /\ out.calls[1].op = "Get"
           THEN out.calls[1].ret ELSE NoGetAnswer,
   table |-> IF out.renders # <<>> THEN out.renders[1] ELSE NoTableAnswer]

\* the backend answers the two invocations alike: what both asked was
\* answered the same
SameAnswers(o1, o2) ==
  /\ o1.clients # <<>> /\ o2.clients # <<>> => o1.clients[1].err = o2.clients[1].err
  /\ o1.calls # <<>> /\ o2.calls # <<>> => o1.calls[1].ret = o2.calls[1].ret
  /\ o1.renders # <<>> /\ o2.renders # <<>> => o1.renders[1] = o2.renders[1]

SameQuery ==
  last.tool = prev.tool /\ last.args = prev.args /\ SameAnswers(last.out, prev.out)

EnvAfterStartup == MainOf(variant, boot.flags, boot.env, NilError).env

\* the outcome of an invocation run alone, right after startup, against the
\* same backend
Alone(call) ==
  Handle(variant, call.handler, call.args, EnvAfterStartup, AnswersGiven(call.out))

ResolvedToken ==
  IF ArgString("token") # "" THEN ArgString("token")
  ELSE Getenv(environ, "ENBUILD_API_TOKEN")

\* some option of the SDK client built by the call carries the value
ClientConfiguredWith(value) ==
  \E i \in DOMAIN Out.clients[1].sdkOptions : Out.clients[1].sdkOptions[i].val = value

\* C21: in the token programs, the token resolved for a call (the argument,
\* or ENBUILD_API_TOKEN when the argument is empty) is handed to the SDK
\* client built for that call.
C21_TokenReachesClient ==
  Called /\ variant # "part_001" /\ Out.clients # <<>> /\ ResolvedToken # ""
    => ClientConfiguredWith(ResolvedToken)

\* the base URL the process was started with: the flag, or the variable
ConfiguredBaseURL ==
  IF FlagValue(boot.flags, "base-url", "") # ""
  THEN FlagValue(boot.flags, "base-url", "")
  ELSE Getenv(boot.env, "ENBUILD_BASE_URL")

\* C22: the base URL given by --base-url or ENBUILD_BASE_URL is the base URL
\* of the SDK client of every call (that does not carry a base URL of its
\* own); a configured base URL is never dropped for the SDK's default.
C22_BaseURLReachesClient ==
  Called /\ Out.clients # <<>> /\ ArgString("base_url") = "" /\ ConfiguredBaseURL # ""
    => \E i \in DOMAIN Out.clients[1].sdkOptions :
         Out.clients[1].sdkOptions[i] = SdkWithBaseURL(ConfiguredBaseURL)

\* C24: in every success envelope of a list, search or filter tool, data is
\* the sequence the backend returned: the same items in the same order,
\* none added, dropped or changed, and what the wrapper handed to the
\* handler is what the SDK answered.
C24_DataIsBackendSequence ==
  Called /\ ~IsGet /\ IsSuccessEnvelope
    => /\ Len(Out.calls) = 1
       /\ Built.Data = DataSlice(Out.calls[1].ret.catalogs)
       /\ HasKey("data")
       /\ Doc.obj.data.items = Out.calls[1].ret.catalogs.items
       /\ Doc.obj.data.json = IF Out.calls[1].ret.catalogs.isNil THEN "null" ELSE "array"

C24_Witness ==
  /\ Called /\ ~IsGet /\ IsSuccessEnvelope /\ variant = "part_002"
  /\ Doc.obj.data.items = <<Catalog2, Catalog1>>

\* C25: the message of every successful search_catalogs call is "Found <n>
\* catalogs matching filters: name: '<name>', type: '<type>', vcs: '<VCS>'"
\* with n the number of items returned and the three values those sent to
\* the backend, the vcs in upper case.
C25_SearchMessage ==
  Called /\ last.tool = "search_catalogs" /\ IsSuccessEnvelope
    => /\ Out.calls[1].opts.VCS = Canonical
       /\ Doc.obj.message =
            "Found " \o Itoa(Returned) \o " catalogs matching filters: name: '"
              \o Out.calls[1].opts.Name \o "', type: '" \o Out.calls[1].opts.Type
              \o "', vcs: '" \o Out.calls[1].opts.VCS \o "'"

\* C26: a success envelope of get_catalog_details has count 1 when the
\* backend returned a catalog and count 0 when it returned none.
C26_GetCountIsFound ==
  Called /\ last.tool = "get_catalog_details" /\ IsSuccessEnvelope
    => Built.Count = (IF Out.calls[1].ret.catalog.isNil THEN 0 ELSE 1)

\* the call in last is a call of a handler function / of a wrapper method
IsHandler == Called /\ last.handler \in {"listCatalogs", "getCatalogDetails", "searchCatalogs"}
IsWrapper == Called /\ last.handler \in WrapperMethods(variant)

\* the checks each validating handler (part_001, part_002) makes on its
\* arguments
RequiredBy(handler) ==
  CASE handler = "listCatalogs" -> {"vcs"}
    [] handler = "getCatalogDetails" -> {"id"}
    [] handler = "searchCatalogs" -> {"name", "type", "vcs"}

ValidationFails ==
  \/ \E f \in RequiredBy(last.handler) : ArgString(f) = ""
  \/ last.handler # "getCatalogDetails" /\ ~ValidVCS

IsValidationMessage(msg) ==
  HasPrefix(msg, "Missing required parameter: ") \/ HasPrefix(msg, "Invalid VCS value: ")

\* a credential or setting the handler needs is in neither the arguments
\* nor the environment
NothingToResolve ==
  CredentialMissing \/ (variant = "part_002" /\ Getenv(environ, "ENBUILD_BASE_URL") = "")

\* C23: a validating handler (those of part_001 and part_002) validates its
\* arguments, then resolves the credentials and builds the client, then
\* calls the backend, then builds the envelope: when validation fails no
\* credential is resolved, no client is built and no backend operation is
\* made, and the error is the validation error even when the credentials
\* are missing too; a backend operation is made only with a client built
\* from resolved credentials, and a success envelope only after it.
C23_ValidateResolveCallBuild ==
  IsHandler /\ variant \in {"part_001", "part_002"}
    => /\ ValidationFails
            => /\ IsFailureEnvelope /\ IsValidationMessage(Doc.obj.message)
               /\ Out.creds = <<>> /\ Out.clients = <<>> /\ Out.calls = <<>>
       /\ ~ValidationFails /\ NothingToResolve
            => /\ IsFailureEnvelope /\ ~IsValidationMessage(Doc.obj.message)
               /\ Out.clients = <<>> /\ Out.calls = <<>>
       /\ Out.clients # <<>> => Out.creds # <<>>
       /\ Out.calls # <<>> => ClientReady
       /\ IsSuccessEnvelope => Len(Out.calls) = 1 /\ ~BackendFailed

C23_Witness ==
  /\ IsHandler /\ variant = "part_001" /\ last.handler = "listCatalogs"
  /\ ArgString("vcs") = "" /\ NothingToResolve
  /\ Doc.obj.message = MissingMessage("vcs")
  /\ Out.calls = <<>>

\* the first check of searchCatalogs the arguments fail: its message, or ""
FirstFailure ==
  IF ArgString("name") = "" THEN MissingMessage("name")
  ELSE IF ArgString("type") = "" THEN MissingMessage("type")
  ELSE IF ArgString("vcs") = "" THEN MissingMessage("vcs")
  ELSE IF ~ValidVCS THEN "Invalid VCS value: "
  ELSE ""

\* C27: searchCatalogs (part_001, part_002) checks name, then type, then the
\* presence of vcs, then the validity of vcs: a call failing several checks
\* fails with the message of the first one, and one failure envelope is
\* built for the call.
C27_FirstFailingCheck ==
  IsHandler /\ last.handler = "searchCatalogs" /\ variant \in {"part_001", "part_002"}
    => IF FirstFailure = ""
       THEN ~(IsFailureEnvelope /\ IsValidationMessage(Doc.obj.message))
       ELSE /\ IsFailureEnvelope
            /\ HasPrefix(Doc.obj.message, FirstFailure)
            /\ FirstFailure # "Invalid VCS value: " => Doc.obj.message = FirstFailure
            /\ Len(Out.response) = 1
            /\ Out.calls = <<>>

C27_Witness ==
  /\ IsHandler /\ last.handler = "searchCatalogs" /\ variant = "part_002"
  /\ ArgString("name") = "" /\ ArgString("type") = "" /\ ArgString("vcs") = "svn"
  /\ Doc.obj.message = MissingMessage("name")

\* what serving requires of the environment: each startup setting is
\* non-empty and is the flag's value when the flag was given, otherwise the
\* value the variable had when the process started
SettingFromFlagOrEnvironment(s) ==
  /\ Getenv(environ, s.env) # ""
  /\ Getenv(environ, s.env) =
       (IF FlagValue(boot.flags, s.flag, "") # "" THEN FlagValue(boot.flags, s.flag, "")
        ELSE Getenv(boot.env, s.env))

IsCredentialFailure(msg) ==
  \/ HasPrefix(msg, "Missing credentials")
  \/ HasSuffix(msg, "API token is required but not provided")
  \/ HasSuffix(msg, "base URL is required but not provided")

\* C28: in the programs whose startup enforces the credentials (part_001,
\* part_002), in every serving state each required ENBUILD_* variable is
\* non-empty, holding the flag's value if the flag was given and otherwise
\* the value it had before, and no tool call ends in a missing-credentials
\* failure.
C28_ServingHasCredentials ==
  phase = "serving" /\ variant \in {"part_001", "part_002"}
    => /\ \A s \in StartupSettings : SettingFromFlagOrEnvironment(s)
       /\ Called /\ IsFailureEnvelope => ~IsCredentialFailure(Doc.obj.message)

\* the value getCredentials resolves for a credential
Resolved(arg, env) ==
  IF ArgString(arg) # "" THEN ArgString(arg) ELSE Getenv(environ, env)

\* C29: getCredentials resolves base URL, username and password each on its
\* own, the argument if it is non-empty and otherwise the environment
\* variable; the handler goes on with all three non-empty, or fails with
\* "Missing credentials" and nothing resolved.  The token of part_002 is
\* resolved the same way.
C29_CredentialsResolvedIndependently ==
  IsHandler /\ ~ValidationFails
    => /\ variant = "part_001"
            => IF /\ Resolved("base_url", "ENBUILD_BASE_URL") # ""
                  /\ Resolved("username", "ENBUILD_USERNAME") # ""
                  /\ Resolved("password", "ENBUILD_PASSWORD") # ""
               THEN Out.creds = <<Creds("", Resolved("base_url", "ENBUILD_BASE_URL"),
                                        Resolved("username", "ENBUILD_USERNAME"),
                                        Resolved("password", "ENBUILD_PASSWORD"))>>
               ELSE /\ Out.creds = <<>> /\ Out.clients = <<>>
                    /\ IsFailureEnvelope
                    /\ Doc.obj.message = "Missing credentials: Missing required "
                                           \o "credentials: baseURL, username, or password"
       /\ variant = "part_002"
            => IF Resolved("token", "ENBUILD_API_TOKEN") = ""
               THEN /\ Out.creds = <<>> /\ IsFailureEnvelope
                    /\ HasSuffix(Doc.obj.message, "API token is required but not provided")
               ELSE IF Getenv(environ, "ENBUILD_BASE_URL") = ""
               THEN /\ Out.creds = <<>> /\ IsFailureEnvelope
                    /\ HasSuffix(Doc.obj.message, "base URL is required but not provided")
               ELSE Out.creds = <<Creds(Resolved("token", "ENBUILD_API_TOKEN"),
                                        Getenv(environ, "ENBUILD_BASE_URL"), "", "")>>

C29_Witness ==
  /\ IsHandler /\ ~ValidationFails /\ variant = "part_001"
  /\ ArgString("username") = "alice" /\ Getenv(environ, "ENBUILD_USERNAME") = "envuser"
  /\ ArgString("password") = "" /\ ArgString("base_url") = ""
  /\ Out.creds = <<Creds("", "https://env.example", "alice", "envpw")>>

\* the request a wrapper method is to make of the SDK
ExpectedOptions ==
  CASE last.handler \in {"ListCatalogs", "GetCatalog"} ->
         ListOptions(last.args.options.Name, last.args.options.Type, last.args.options.VCS)
    [] last.handler = "FilterCatalogsByVCS" -> ListOptions("", "", last.args.str)
    [] last.handler = "FilterCatalogsByType" -> ListOptions("", last.args.str, "")
    [] last.handler = "SearchCatalogs" -> ListOptions(last.args.str, "", "")

\* C30: each wrapper method (client.go, part_005) makes exactly one SDK call
\* and returns its result and error unchanged; FilterCatalogsByVCS(v) makes
\* the List request of ListCatalogs with only VCS = v; ListCatalogs(nil) and
\* GetCatalog(id, nil) hand the SDK an empty options value, never nil.
C30_WrapperPassThrough ==
  IsWrapper
    => /\ Len(Out.calls) = 1
       /\ ~Out.calls[1].opts.isNil
       /\ Out.calls[1].opts = ExpectedOptions
       /\ Out.err = Out.calls[1].ret.err
       /\ IF last.handler = "GetCatalog"
          THEN /\ Out.calls[1].op = "Get" /\ Out.calls[1].id = last.args.id
               /\ Out.catalog = Out.calls[1].ret.catalog
          ELSE /\ Out.calls[1].op = "List"
               /\ Out.catalogs = Out.calls[1].ret.catalogs

C30_Witness ==
  /\ IsWrapper /\ last.handler = "GetCatalog" /\ variant = "part_002"
  /\ last.args.options.isNil /\ last.args.id = "42"
  /\ Out.calls = <<SdkGet("42", ListOptions("", "", ""), [catalog |-> Ptr(Catalog1), err |-> NilError])>>
  /\ Out.catalog = Ptr(Catalog1)

=============================================================================
